---------------------------- MODULE Spec2Model ----------------------------
(***************************************************************************)
(* A model of the containerof crate (src/src/lib.rs): the field-offset     *)
(* macro, IntrusiveAlias, OwnBox, BorrowBox / BorrowBoxMut and the blanket  *)
(* implementation of the Intrusive trait, driven by a client program that  *)
(* allocates boxes of the test container MyStruct (src/tests/lib.rs) and    *)
(* converts them through the crate's operations.                            *)
(*                                                                         *)
(* Addresses are machine words of AddrBits bits.  The build configuration  *)
(* (the layout the compiler gave the container, the field the generated    *)
(* handle type translates, and the has_offset_of cfg flag of build.rs) is   *)
(* chosen once, in Init.  The client holds one value at a time, the one the *)
(* previous step returned, and applies the next operation to it; a value    *)
(* carries, besides its address, the provenance Rust's ownership discipline *)
(* gives it (which allocation it descends from and the operations that      *)
(* returned it).  The "# Safety" contracts the source documents for its     *)
(* unsafe functions are guards of the client's calls.                       *)
(***************************************************************************)
EXTENDS Integers, Sequences, FiniteSets, TLC

\* ------------------------------------------------------------- bounds
AddrBits == 7
NumBases == 2

\* ---------------------------------------------------- program constants
FieldSize == 4
NumFields == 3
NewVal == 10

AddrSpace == 2 ^ AddrBits
Fields == 1 .. NumFields
ContainerSize == FieldSize * NumFields

\* The container types: three i32 fields placed without padding.  DeclOrder
\* is the test's MyStruct, whose equally aligned fields keep their declared
\* order; the other layouts stand for containers whose fields the compiler
\* places in another order.
Layouts ==
    { l \in [Fields -> { FieldSize * i : i \in 0 .. (NumFields - 1) }] :
        \A f, g \in Fields : f # g => l[f] # l[g] }
DeclOrder == [f \in Fields |-> FieldSize * (f - 1)]

\* The field values a container is constructed with:
\* MyStruct { field1: 1, field2: 2, field3: 3 }.
InitVals == { <<1, 2, 3>> }

\* Addresses the allocator hands out: word aligned, never null, blocks of
\* ContainerSize bytes next to each other.
Base(i) == FieldSize + ContainerSize * (i - 1)
Bases == { Base(i) : i \in 1 .. NumBases }
MemWords == { b + FieldSize * i : b \in Bases, i \in 0 .. (NumFields - 1) }

\* Arbitrary addresses a client may wrap in an IntrusiveAlias: null, an
\* unaligned one, an allocation start, the inside of a block, the last one.
RawAddrs == { 0, 1, Base(1), Base(1) + FieldSize + 1, AddrSpace - 1 }

\* Where the client's local variable holding a handle may live: away from
\* the heap blocks, word aligned.
StackAddrs == { AddrSpace - 2 * ContainerSize, AddrSpace - ContainerSize }

Types == { "Container", "Field" }
NoVal == [k |-> "none"]
NoBorrow == [mode |-> "none"]
NoWrite == [path |-> "none"]
NoObs == [path |-> "none"]

VARIABLES
    layout,         \* the container type: field -> byte offset the compiler gave it
    fld,            \* the field the generated handle type translates
    has_offset_of,  \* cfg flag set by build.rs
    heap,           \* allocation start -> "free" or the type of the live Box
    mem,            \* word address -> the i32 stored there (0: not allocated)
    cur,            \* the client's live value (what the previous step returned)
    borrow,         \* the live BorrowBox / BorrowBoxMut, if any
    faults,         \* allocator / memory misuse events observed so far
    leaked,         \* the owners lost unconsumed (an OwnBox discarded): allocation, tracked address
    wr,             \* the last write made through the current handle or borrow (history)
    obs             \* what the accessors of a handle last returned (history)

vars == <<layout, fld, has_offset_of, heap, mem, cur, borrow, faults, leaked, wr, obs>>
cfgvars == <<layout, fld, has_offset_of>>


\* ------------------------------------------------- pointer arithmetic
\* <*const u8>::add and ::sub on an address-sized word.
PtrAdd(p, n) == (p + n) % AddrSpace
PtrSub(p, n) == (p - n) % AddrSpace

\* The place expression (*p).field as the compiler evaluates it for a
\* container at address p: the address of field f of that instance.
FieldAddr(p, f) == PtrAdd(p, layout[f])

\* ------------------------------------------------- the offset macro
\* ::std::mem::offset_of!($container, $field)
offset_of(f) == layout[f]

\* &(*(0usize as *const $container)).$field as *const _ as usize
NullBase == 0
null_base_field_address(f) == FieldAddr(NullBase, f)

\* Faulty variant: the offset of the end of the field instead of its start.
containerof_field_offset_end(f) ==
    IF has_offset_of THEN offset_of(f) + FieldSize
    ELSE PtrAdd(null_base_field_address(f), FieldSize)
containerof_field_offset(f) ==
    IF has_offset_of THEN offset_of(f) ELSE null_base_field_address(f)

\* IntrusiveBase::offset() of the handle type containerof_intrusive! generates
offset == containerof_field_offset(fld)

\* ------------------------------------------------- IntrusiveAlias
IntrusiveAlias_new(addr) == [ptr |-> addr]
IntrusiveAlias_new_of(refaddr) == IntrusiveAlias_new(refaddr)
IntrusiveAlias_get_address(ia) == ia.ptr

\* ------------------------------------------------- OwnBox
OwnBox_get_address(b) == b.pointer.ptr
OwnBox_from_alias(pointer) == [pointer |-> pointer]
OwnBox_into_alias(b) == b.pointer
OwnBox_as_alias(b) == b.pointer
\* Faulty variant: the Box is read and then dropped at the end of from_box.
OwnBox_from_box_dropping(b) ==
    [own |-> [pointer |-> IntrusiveAlias_new(b.raw)], drop_arg |-> TRUE]
\* A Box is the address its allocation starts at.  transmute moves that
\* address out of the Box: the Box's destructor does not run (drop_arg).
OwnBox_from_box(b) ==
    [own |-> [pointer |-> IntrusiveAlias_new(b.raw)], drop_arg |-> FALSE]
OwnBox_into_box(b) == [raw |-> IntrusiveAlias_get_address(OwnBox_into_alias(b))]
OwnBox_deref(b) == OwnBox_get_address(b)
\* Faulty variants: a destructor that frees what the OwnBox tracks, as a
\* Box would, and one with the panic! enabled.
OwnBox_drop_releasing(b) == [release |-> {OwnBox_get_address(b)}, panic |-> FALSE]
OwnBox_drop_panicking(b) == [release |-> {}, panic |-> TRUE]
\* impl Drop for OwnBox: the body is empty (the panic! is commented out).
OwnBox_drop(b) == [release |-> {}, panic |-> FALSE]

\* ------------------------------------------------- the generated handle type
IntrusiveBase_new(ia) == [ia |-> ia]
IntrusiveBase_as_alias(h) == h.ia

\* ------------------------------------------------- BorrowBox / BorrowBoxMut
BorrowBox_new_from(pointer) == [pointer |-> pointer]
BorrowBoxMut_new_from(pointer) == [pointer |-> pointer]
\* A reference to a handle, source: the location at of the handle object
\* and the handle val stored there.
\* Faulty variant: the alias stored in the referenced handle is recorded.
BorrowBox_new_copying(source) == BorrowBox_new_from(IntrusiveBase_as_alias(source.val))
BorrowBox_new(source) == BorrowBox_new_from(IntrusiveAlias_new_of(source.at))
BorrowBoxMut_new(source) == BorrowBoxMut_new_from(IntrusiveAlias_new_of(source.at))

\* ------------------------------------------------- impl Intrusive for T
Intrusive_from_alias(ia) == IntrusiveBase_new(ia)
\* Faulty variant: the alias of the container instead of the field.
Intrusive_into_alias_shifted(h) ==
    IntrusiveAlias_new(PtrSub(IntrusiveAlias_get_address(IntrusiveBase_as_alias(h)), offset))
Intrusive_into_alias(h) == IntrusiveBase_as_alias(h)
Intrusive_as_alias_mut(h) == IntrusiveBase_as_alias(h)
\* &*(ia as *const _ as *const T): the alias's own storage read as a handle
Intrusive_of_alias(ia) == [ia |-> ia]
Intrusive_of_alias_mut(ia) == [ia |-> ia]

\* Faulty variant: the offset is not added.
from_container_no_offset(c) ==
    Intrusive_from_alias(IntrusiveAlias_new(IntrusiveAlias_get_address(OwnBox_as_alias(c))))
from_container(c) ==
    LET addr == PtrAdd(IntrusiveAlias_get_address(OwnBox_as_alias(c)), offset)
    IN  Intrusive_from_alias(IntrusiveAlias_new(addr))

\* Faulty variant: the offset is not subtracted.
into_container_no_offset(h) ==
    OwnBox_from_alias(IntrusiveAlias_new(IntrusiveAlias_get_address(IntrusiveBase_as_alias(h))))
into_container(h) ==
    LET fieldptr == IntrusiveAlias_get_address(IntrusiveBase_as_alias(h))
        containerptr == PtrSub(fieldptr, offset)
    IN  OwnBox_from_alias(IntrusiveAlias_new(containerptr))

\* Faulty variant: the offset is not added.
of_container_no_offset(container) ==
    BorrowBox_new_from(IntrusiveAlias_new(container))
of_container(container) ==
    LET fieldptr == PtrAdd(container, offset)
    IN  BorrowBox_new_from(IntrusiveAlias_new(fieldptr))

\* Faulty variant: the offset is not added.
of_container_mut_no_offset(container) ==
    BorrowBoxMut_new_from(IntrusiveAlias_new(container))
of_container_mut(container) ==
    LET fieldptr == PtrAdd(container, offset)
    IN  BorrowBoxMut_new_from(IntrusiveAlias_new(fieldptr))

\* Faulty variant: the offset is not subtracted.
as_container_no_offset(h) == IntrusiveAlias_get_address(IntrusiveBase_as_alias(h))
\* the address the returned &Container denotes
as_container(h) ==
    LET fieldptr == IntrusiveAlias_get_address(IntrusiveBase_as_alias(h))
    IN  PtrSub(fieldptr, offset)
as_container_mut(h) == as_container(h)

from_field(c) ==
    LET addr == IntrusiveAlias_get_address(OwnBox_as_alias(c))
    IN  Intrusive_from_alias(IntrusiveAlias_new(addr))

\* Faulty variant: the container's address instead of the field's.
into_field_as_container(h) ==
    OwnBox_from_alias(IntrusiveAlias_new(
        PtrSub(IntrusiveAlias_get_address(IntrusiveBase_as_alias(h)), offset)))
into_field(h) ==
    OwnBox_from_alias(IntrusiveAlias_new(IntrusiveAlias_get_address(IntrusiveBase_as_alias(h))))

of_field(field) == BorrowBox_new_from(IntrusiveAlias_new_of(field))
of_field_mut(field) == BorrowBoxMut_new_from(IntrusiveAlias_new_of(field))

\* the address the returned &Field denotes
as_field(h) == IntrusiveAlias_get_address(IntrusiveBase_as_alias(h))
\* Faulty variant: the container's address instead of the field's.
as_field_mut_container(h) == as_container(h)
as_field_mut(h) == IntrusiveAlias_get_address(IntrusiveBase_as_alias(h))

\* Deref / DerefMut of a borrow box: the handle stored in its pointer field
BorrowBox_deref(b) == Intrusive_of_alias(b.pointer)
BorrowBoxMut_deref(b) == Intrusive_of_alias(b.pointer)
BorrowBoxMut_deref_mut(b) == Intrusive_of_alias_mut(b.pointer)


\* ------------------------------------------------- the client's value
\* A live value: its kind k, the type t it targets (for an alias, the type
\* of what the address denotes), its representation rep, the allocation
\* org it descends from ("raw": none, an address made up by the client),
\* and the operations that returned it (via) and its predecessor (prev).
Value(k, t, rep, org, via, prev) ==
    [k |-> k, t |-> t, rep |-> rep, org |-> org, via |-> via, prev |-> prev]

Addr(v) ==
    CASE v.k = "Box"    -> v.rep.raw
      [] v.k = "OwnBox" -> OwnBox_get_address(v.rep)
      [] v.k = "Handle" -> IntrusiveAlias_get_address(IntrusiveBase_as_alias(v.rep))
      [] v.k = "Alias"  -> IntrusiveAlias_get_address(v.rep)

Live == cur # NoVal
Movable == Live /\ borrow = NoBorrow

BlockWords(b) == { w \in MemWords : b <= w /\ w < b + ContainerSize }
Allocated(w) == \E b \in Bases : heap[b] # "free" /\ w \in BlockWords(b)

\* The allocator's free, as Box<T>'s destructor calls it, for each request
\* of reqs (the Box's address and its type T); an address that is not the
\* start of a live allocation of that type is a fault, and so is a panic.
Dealloc(reqs, panic) ==
    LET good == { r \in reqs : r.addr \in Bases /\ heap[r.addr] = r.t }
        gone == { r.addr : r \in good }
    IN  /\ heap' = [b \in Bases |-> IF b \in gone THEN "free" ELSE heap[b]]
        /\ mem' = [w \in MemWords |->
                     IF \E b \in gone : w \in BlockWords(b) THEN 0 ELSE mem[w]]
        /\ faults' = faults
                \cup { [ev |-> "bad_free", addr |-> r.addr, t |-> r.t] : r \in reqs \ good }
                \cup (IF panic THEN { [ev |-> "panic", addr |-> 0] } ELSE {})

NoDealloc == UNCHANGED <<heap, mem, faults>>

\* ------------------------------------------------- documented contracts
\* OwnBox::into_box: "the caller must ensure that self was originally
\* constructed from a Box" (of the OwnBox's target type).
Contract_into_box(v) == v.org.type = v.t
\* OwnBox::from_alias: the pointer is owned, and denotes a T.
Contract_OwnBox_from_alias(v, t) == v.org.type # "raw" /\ v.t = t
\* Intrusive::from_field / of_field: "the caller must ensure that the
\* argument was constructed from this type": the field of a container.
Contract_from_field(v) == v.org.type = "Container"
\* Intrusive::from_alias makes an owned pointer of a raw one: the handle may
\* be used as one only when the alias denoted the field of a container.
Contract_from_alias(v) ==
    v.org.type = "raw" \/ (v.t = "Field" /\ v.org.type = "Container")
OwnsField(v) == v.org.type = "Container"

\* ------------------------------------------------- initial state
Init ==
    /\ layout \in Layouts
    /\ fld \in Fields
    /\ has_offset_of \in BOOLEAN
    /\ heap = [b \in Bases |-> "free"]
    /\ mem = [w \in MemWords |-> 0]
    /\ cur = NoVal
    /\ borrow = NoBorrow
    /\ faults = {}
    /\ leaked = {}
    /\ wr = NoWrite
    /\ obs = NoObs

\* ------------------------------------------------- allocation
\* Box::new(MyStruct { field1, field2, field3 })
BoxNew(init) ==
    /\ ~Live
    /\ \E b \in Bases :
        /\ heap[b] = "free"
        /\ heap' = [heap EXCEPT ![b] = "Container"]
        /\ mem' = [w \in MemWords |->
                     IF \E f \in Fields : w = FieldAddr(b, f)
                     THEN init[CHOOSE f \in Fields : w = FieldAddr(b, f)]
                     ELSE mem[w]]
        /\ cur' = Value("Box", "Container", [raw |-> b],
                        [type |-> "Container", base |-> b], "Box::new", "-")
    /\ obs' = NoObs
    /\ UNCHANGED <<cfgvars, borrow, faults, leaked, wr>>

\* The value goes out of scope: a Box frees its allocation, an OwnBox runs
\* its Drop impl, an alias of the client's making has no destructor.  (The
\* client converts a handle or an owning alias back before letting it go.)
Droppable(v) == v.k \in {"Box", "OwnBox"} \/ v.org.type = "raw"
DropValue ==
    /\ Movable /\ Droppable(cur)
    /\ LET d == OwnBox_drop(cur.rep)
       IN  /\ CASE cur.k = "Box" -> Dealloc({ [addr |-> Addr(cur), t |-> cur.t] }, FALSE)
                [] cur.k = "OwnBox" ->
                     Dealloc({ [addr |-> a, t |-> cur.t] : a \in d.release }, d.panic)
                [] OTHER -> NoDealloc
           /\ leaked' = IF cur.k = "OwnBox"
                        THEN leaked \cup { [base |-> cur.org.base, addr |-> Addr(cur)] }
                        ELSE leaked
    /\ cur' = NoVal
    /\ wr' = NoWrite
    /\ obs' = NoObs
    /\ UNCHANGED <<cfgvars, borrow>>

\* ------------------------------------------------- OwnBox operations
FromBox ==
    /\ Movable /\ cur.k = "Box"
    /\ LET r == OwnBox_from_box(cur.rep)
       IN  /\ cur' = Value("OwnBox", cur.t, r.own, cur.org, "from_box", cur.via)
           /\ IF r.drop_arg
              THEN Dealloc({ [addr |-> Addr(cur), t |-> cur.t] }, FALSE)
              ELSE NoDealloc
    /\ obs' = NoObs
    /\ wr' = NoWrite
    /\ UNCHANGED <<cfgvars, borrow, leaked>>

IntoBox ==
    /\ Movable /\ cur.k = "OwnBox"
    /\ Contract_into_box(cur)
    /\ cur' = Value("Box", cur.t, OwnBox_into_box(cur.rep), cur.org, "into_box", cur.via)
    /\ NoDealloc
    /\ obs' = NoObs
    /\ UNCHANGED <<cfgvars, borrow, leaked, wr>>

\* into_box has no check of its own: the call type-checks for every OwnBox.
\* This is the call a client makes in breach of the contract, on the
\* OwnBox<Field> that into_field returned.
IntoBoxUnchecked ==
    /\ Movable /\ cur.k = "OwnBox"
    /\ ~Contract_into_box(cur)
    /\ cur' = Value("Box", cur.t, OwnBox_into_box(cur.rep), cur.org, "into_box", cur.via)
    /\ NoDealloc
    /\ obs' = NoObs
    /\ UNCHANGED <<cfgvars, borrow, leaked, wr>>

OwnBoxIntoAlias ==
    /\ Movable /\ cur.k = "OwnBox"
    /\ cur' = Value("Alias", cur.t, OwnBox_into_alias(cur.rep), cur.org,
                    "OwnBox::into_alias", cur.via)
    /\ NoDealloc
    /\ obs' = NoObs
    /\ UNCHANGED <<cfgvars, borrow, leaked, wr>>

OwnBoxFromAlias(t) ==
    /\ Movable /\ cur.k = "Alias"
    /\ Contract_OwnBox_from_alias(cur, t)
    /\ cur' = Value("OwnBox", t, OwnBox_from_alias(cur.rep), cur.org,
                    "OwnBox::from_alias", cur.via)
    /\ NoDealloc
    /\ obs' = NoObs
    /\ UNCHANGED <<cfgvars, borrow, leaked, wr>>

\* ------------------------------------------------- IntrusiveAlias::new
\* The client wraps an address of its own making.
AliasNew(x) ==
    /\ ~Live
    /\ cur' = Value("Alias", "raw", IntrusiveAlias_new(x),
                    [type |-> "raw", base |-> x], "IntrusiveAlias::new", "-")
    /\ NoDealloc
    /\ obs' = NoObs
    /\ UNCHANGED <<cfgvars, borrow, leaked, wr>>

\* ------------------------------------------------- Intrusive: owning path
FromContainer ==
    /\ Movable /\ cur.k = "OwnBox" /\ cur.t = "Container"
    /\ cur' = Value("Handle", "Field", from_container(cur.rep), cur.org,
                    "from_container", cur.via)
    /\ NoDealloc
    /\ obs' = NoObs
    /\ wr' = NoWrite
    /\ UNCHANGED <<cfgvars, borrow, leaked>>

IntoContainer ==
    /\ Movable /\ cur.k = "Handle" /\ OwnsField(cur)
    /\ cur' = Value("OwnBox", "Container", into_container(cur.rep), cur.org,
                    "into_container", cur.via)
    /\ NoDealloc
    /\ UNCHANGED <<cfgvars, borrow, leaked, wr, obs>>

\* into_container compares nothing: it also runs on a handle converted from
\* an address of the client's making.  <*const u8>::sub below address 0 is
\* undefined: the build either wraps (the result is an address-sized word)
\* or, where the library's debug checks are compiled in, aborts.  obs
\* keeps the address a wrapping build computes.  The client lets the
\* OwnBox it gets go at once (its Drop does nothing).
Underflows(h) == IntrusiveAlias_get_address(IntrusiveBase_as_alias(h)) < offset

\* The process after an abort: no value is left to act on.
Aborted ==
    Value("aborted", "raw", [ptr |-> 0], [type |-> "none", base |-> 0], "abort", "-")

IntoContainerForeign ==
    /\ Movable /\ cur.k = "Handle" /\ ~OwnsField(cur)
    /\ obs' = [path |-> "foreign", h |-> Addr(cur),
               c |-> OwnBox_get_address(into_container(cur.rep))]
    /\ UNCHANGED <<cfgvars, heap, mem, borrow, leaked, wr>>
    /\ IF Underflows(cur.rep)
       THEN /\ faults' = faults \cup { [ev |-> "underflow"] }
            /\ \E aborts \in BOOLEAN : cur' = IF aborts THEN Aborted ELSE NoVal
       ELSE /\ faults' = faults
            /\ cur' = NoVal

FromField ==
    /\ Movable /\ cur.k = "OwnBox" /\ cur.t = "Field"
    /\ Contract_from_field(cur)
    /\ cur' = Value("Handle", "Field", from_field(cur.rep), cur.org,
                    "from_field", cur.via)
    /\ NoDealloc
    /\ obs' = NoObs
    /\ UNCHANGED <<cfgvars, borrow, leaked, wr>>

IntoField ==
    /\ Movable /\ cur.k = "Handle" /\ OwnsField(cur)
    /\ cur' = Value("OwnBox", "Field", into_field(cur.rep), cur.org,
                    "into_field", cur.via)
    /\ NoDealloc
    /\ obs' = NoObs
    /\ UNCHANGED <<cfgvars, borrow, leaked, wr>>

IntrusiveFromAlias ==
    /\ Movable /\ cur.k = "Alias"
    /\ Contract_from_alias(cur)
    /\ cur' = Value("Handle", "Field", Intrusive_from_alias(cur.rep), cur.org,
                    "Intrusive::from_alias", cur.via)
    /\ NoDealloc
    /\ obs' = NoObs
    /\ UNCHANGED <<cfgvars, borrow, leaked, wr>>

IntrusiveIntoAlias ==
    /\ Movable /\ cur.k = "Handle"
    /\ cur' = Value("Alias", IF cur.org.type = "raw" THEN "raw" ELSE "Field",
                    Intrusive_into_alias(cur.rep), cur.org,
                    "Intrusive::into_alias", cur.via)
    /\ NoDealloc
    /\ obs' = NoObs
    /\ UNCHANGED <<cfgvars, borrow, leaked, wr>>

\* ------------------------------------------------- writes through a handle
\* *p, p a &i32 denoting address a (-1: not a word of the heap)
Load(a) == IF a \in MemWords THEN mem[a] ELSE -1

\* *p = val, p a &mut i32 denoting address a, made on behalf of the
\* container cur descends from; f is the declared field the write is meant
\* for.  wr keeps what the container's fields held before the write.
Store(a, val, f, path) ==
    /\ IF Allocated(a)
       THEN mem' = [mem EXCEPT ![a] = val] /\ faults' = faults
       ELSE mem' = mem /\ faults' = faults \cup { [ev |-> "bad_write", addr |-> a] }
    /\ wr' = [path |-> path, f |-> f, val |-> val,
              pre |-> [g \in Fields |-> mem[FieldAddr(cur.org.base, g)]]]
    /\ UNCHANGED heap

\* *handle.as_field_mut() = val
HandleWrite(val) ==
    /\ Movable /\ cur.k = "Handle" /\ OwnsField(cur)
    /\ Store(as_field_mut(cur.rep), val, fld, "own")
    /\ UNCHANGED <<cfgvars, cur, borrow, leaked, obs>>

\* let c = h.as_container(); let f = h.as_field(); and the same through
\* as_container_mut and as_field_mut: the addresses the four references
\* denote, for the handle h the client owns.  The calls borrow the handle.
Accessors(path, h) ==
    [path |-> path,
     h    |-> IntrusiveAlias_get_address(IntrusiveBase_as_alias(h)),
     c    |-> as_container(h),
     cm   |-> as_container_mut(h),
     f    |-> as_field(h),
     fm   |-> as_field_mut(h)]

HandleRead ==
    /\ Movable /\ cur.k = "Handle" /\ OwnsField(cur)
    /\ obs' = Accessors("own", cur.rep)
    /\ NoDealloc
    /\ UNCHANGED <<cfgvars, cur, borrow, leaked, wr>>

\* ------------------------------------------------- Intrusive: borrowed path
\* &*v for a Box or OwnBox of a container: the address the reference denotes
RefAddr(v) == IF v.k = "OwnBox" THEN OwnBox_deref(v.rep) ELSE v.rep.raw
OwnsContainer(v) == v.k \in {"Box", "OwnBox"} /\ v.t = "Container"

OfContainer ==
    /\ Movable /\ OwnsContainer(cur)
    /\ borrow' = [mode |-> "shared", box |-> of_container(RefAddr(cur)),
                  ctor |-> "of_container"]
    /\ NoDealloc
    /\ obs' = NoObs
    /\ wr' = NoWrite
    /\ UNCHANGED <<cfgvars, cur, leaked>>

OfContainerMut ==
    /\ Movable /\ OwnsContainer(cur)
    /\ borrow' = [mode |-> "mut", box |-> of_container_mut(RefAddr(cur)),
                  ctor |-> "of_container_mut"]
    /\ NoDealloc
    /\ obs' = NoObs
    /\ wr' = NoWrite
    /\ UNCHANGED <<cfgvars, cur, leaked>>

\* The &Field a client can pass: &container.field for the handle's field, or
\* the deref of the OwnBox<Field> that into_field returned.
FieldRefAddr(v) ==
    IF OwnsContainer(v) THEN FieldAddr(RefAddr(v), fld) ELSE OwnBox_deref(v.rep)
OwnsFieldRef(v) ==
    \/ OwnsContainer(v)
    \/ (v.k = "OwnBox" /\ v.t = "Field" /\ Contract_from_field(v))

OfField ==
    /\ Movable /\ OwnsFieldRef(cur)
    /\ borrow' = [mode |-> "shared", box |-> of_field(FieldRefAddr(cur)),
                  ctor |-> "of_field"]
    /\ NoDealloc
    /\ obs' = NoObs
    /\ wr' = NoWrite
    /\ UNCHANGED <<cfgvars, cur, leaked>>

OfFieldMut ==
    /\ Movable /\ OwnsFieldRef(cur)
    /\ borrow' = [mode |-> "mut", box |-> of_field_mut(FieldRefAddr(cur)),
                  ctor |-> "of_field_mut"]
    /\ NoDealloc
    /\ obs' = NoObs
    /\ wr' = NoWrite
    /\ UNCHANGED <<cfgvars, cur, leaked>>

\* *borrow_box.as_field_mut() = val, through DerefMut of the BorrowBoxMut
BorrowWrite(val) ==
    /\ borrow # NoBorrow /\ borrow.mode = "mut"
    /\ borrow.ctor # "BorrowBoxMut::new"
    /\ Store(as_field_mut(BorrowBoxMut_deref_mut(borrow.box)), val, fld, borrow.ctor)
    /\ UNCHANGED <<cfgvars, cur, borrow, leaked, obs>>

\* The accessors of the handle a borrow box derefs to: as_container and
\* as_field through Deref, and for a BorrowBoxMut as_container_mut and
\* as_field_mut through DerefMut.
BorrowRead ==
    /\ borrow # NoBorrow
    /\ obs' = IF borrow.mode = "mut"
               THEN [Accessors(borrow.ctor, BorrowBoxMut_deref(borrow.box))
                        EXCEPT !.cm = as_container_mut(BorrowBoxMut_deref_mut(borrow.box)),
                               !.fm = as_field_mut(BorrowBoxMut_deref_mut(borrow.box))]
               ELSE [path |-> borrow.ctor,
                     h    |-> IntrusiveAlias_get_address(
                                IntrusiveBase_as_alias(BorrowBox_deref(borrow.box))),
                     c    |-> as_container(BorrowBox_deref(borrow.box)),
                     f    |-> as_field(BorrowBox_deref(borrow.box))]
    /\ NoDealloc
    /\ UNCHANGED <<cfgvars, cur, borrow, leaked, wr>>

\* BorrowBox::new(&handle) / BorrowBoxMut::new(&mut handle), for the handle
\* the client owns, held in a local variable at address at.
BorrowNew ==
    /\ Movable /\ cur.k = "Handle" /\ OwnsField(cur)
    /\ \E at \in StackAddrs :
        borrow' = [mode |-> "shared", box |-> BorrowBox_new([at |-> at, val |-> cur.rep]),
                   ctor |-> "BorrowBox::new", src |-> at]
    /\ obs' = NoObs
    /\ NoDealloc
    /\ UNCHANGED <<cfgvars, cur, leaked, wr>>

BorrowNewMut ==
    /\ Movable /\ cur.k = "Handle" /\ OwnsField(cur)
    /\ \E at \in StackAddrs :
        borrow' = [mode |-> "mut", box |-> BorrowBoxMut_new([at |-> at, val |-> cur.rep]),
                   ctor |-> "BorrowBoxMut::new", src |-> at]
    /\ obs' = NoObs
    /\ NoDealloc
    /\ UNCHANGED <<cfgvars, cur, leaked, wr>>

\* *borrow_box.as_field_mut() = val through a BorrowBoxMut made by new.  A
\* write that lands on the local variable holding the handle replaces the
\* low-order bytes of the address stored there (an address word of the
\* model is no wider than the field): the handle then holds an address
\* of the client's making and no longer leads to its container, which is
\* left allocated with no owner.  Any other address is a store as above.
BorrowNewWrite(val) ==
    /\ borrow # NoBorrow /\ borrow.mode = "mut"
    /\ borrow.ctor = "BorrowBoxMut::new"
    /\ LET a == as_field_mut(BorrowBoxMut_deref_mut(borrow.box))
       IN  IF a = borrow.src
           THEN /\ cur' = Value("Handle", "raw",
                                IntrusiveBase_new(IntrusiveAlias_new(val % AddrSpace)),
                                [type |-> "raw", base |-> val % AddrSpace],
                                "overwritten", cur.via)
                /\ leaked' = leaked \cup { [base |-> cur.org.base, addr |-> Addr(cur)] }
                /\ UNCHANGED <<heap, mem, faults, wr>>
           ELSE /\ Store(a, val, fld, borrow.ctor)
                /\ UNCHANGED <<cur, leaked>>
    /\ UNCHANGED <<cfgvars, borrow, obs>>

\* The borrow box goes out of scope: it has no destructor.
EndBorrow ==
    /\ borrow # NoBorrow
    /\ borrow' = NoBorrow
    /\ NoDealloc
    /\ UNCHANGED <<cfgvars, cur, leaked, wr, obs>>

\* ------------------------------------------------- specification
WriteVals == { NewVal }

Next ==
    \/ \E init \in InitVals : BoxNew(init)
    \/ \E x \in RawAddrs : AliasNew(x)
    \/ DropValue
    \/ FromBox
    \/ IntoBox
    \/ OwnBoxIntoAlias
    \/ \E t \in Types : OwnBoxFromAlias(t)
    \/ FromContainer
    \/ IntoContainer
    \/ FromField
    \/ IntoField
    \/ IntrusiveFromAlias
    \/ IntrusiveIntoAlias
    \/ \E val \in WriteVals : HandleWrite(val)
    \/ HandleRead
    \/ OfContainer
    \/ OfContainerMut
    \/ OfField
    \/ OfFieldMut
    \/ \E val \in WriteVals : BorrowWrite(val)
    \/ BorrowRead
    \/ EndBorrow

\* Clients that honour the documented contracts of the unsafe functions.
Spec == Init /\ [][Next]_vars

\* Clients held to into_box's contract by nothing but its documentation.
NextUnchecked ==
    \/ Next
    \/ IntoBoxUnchecked

SpecUnchecked == Init /\ [][NextUnchecked]_vars

\* Clients that also hand into_container a handle of their own making.
NextForeign ==
    \/ Next
    \/ IntoContainerForeign

SpecForeign == Init /\ [][NextForeign]_vars

\* Clients that also borrow a handle they own with BorrowBox::new and
\* BorrowBoxMut::new.
NextBorrowNew ==
    \/ Next
    \/ BorrowNew
    \/ BorrowNewMut
    \/ \E val \in WriteVals : BorrowNewWrite(val)

SpecBorrowNew == Init /\ [][NextBorrowNew]_vars

\* ------------------------------------------------- properties
\* The value descends from a boxed container; Origin is the address the
\* allocator returned for it, as OwnBox::from_box captured it.
Owned == Live /\ cur.org.type = "Container"
Origin == cur.org.base
Is(k, via) == Live /\ cur.k = k /\ cur.via = via

\* C1: a container OwnBox tracking the allocation address a, passed to
\* from_container and back through into_container, tracks a again; in
\* between, as_container of the handle denotes a, whatever the field.
C1_ContainerRoundTrip ==
    /\ (Owned /\ Is("Handle", "from_container"))
            => as_container(cur.rep) = Origin
    /\ (Owned /\ Is("OwnBox", "into_container") /\ cur.prev = "from_container")
            => /\ cur.t = "Container"
               /\ OwnBox_get_address(cur.rep) = Origin

C1_Witness ==
    /\ Owned /\ Is("OwnBox", "into_container") /\ cur.prev = "from_container"
    /\ OwnBox_get_address(cur.rep) = Origin
    /\ Origin = Base(NumBases)
    /\ offset = FieldSize * (NumFields - 1)

\* C2: from_container -> into_field -> from_field -> into_container gives
\* back an OwnBox at the allocation address a; the OwnBox<Field> into_field
\* returns and the reference as_field returns are both at a + offset().
C2_FieldRoundTrip ==
    /\ (Owned /\ Is("OwnBox", "into_field"))
            => /\ cur.t = "Field"
               /\ OwnBox_get_address(cur.rep) = PtrAdd(Origin, offset)
    /\ (Owned /\ cur.k = "Handle" /\ cur.via \in {"from_container", "from_field"})
            => as_field(cur.rep) = PtrAdd(Origin, offset)
    /\ (Owned /\ Is("OwnBox", "into_container") /\ cur.prev = "from_field")
            => /\ cur.t = "Container"
               /\ OwnBox_get_address(cur.rep) = Origin

C2_Witness ==
    /\ Owned /\ Is("OwnBox", "into_container") /\ cur.prev = "from_field"
    /\ OwnBox_get_address(cur.rep) = Origin
    /\ offset # 0

\* C3: for every container type and every field, the offset the macro
\* computes (and so offset() of the handle type) is the distance from the
\* start of any live instance to that field of the instance.
C3_OffsetIsFieldDistance ==
    \A b \in Bases :
        heap[b] = "Container" =>
            /\ \A f \in Fields : FieldAddr(b, f) - b = containerof_field_offset(f)
            /\ offset = FieldAddr(b, fld) - b

C3_Witness ==
    /\ heap[Base(NumBases)] = "Container"
    /\ layout # DeclOrder
    /\ ~has_offset_of
    /\ offset = FieldAddr(Base(NumBases), fld) - Base(NumBases)
    /\ offset # 0

\* What a direct read of field g of the container cur descends from must
\* give after the write wr: the written value in the field the handle
\* translates, the value from before the write in every other field.
AfterWrite(g) == IF g = wr.f THEN wr.val ELSE wr.pre[g]

\* C4: a value written through as_field_mut of the handle of_container_mut
\* gives is read back through the handle and, after the borrow ends, by a
\* direct read of the field; the container's other fields keep their
\* values.  A read through of_container gives the field's current value.
C4_BorrowCorrect ==
    /\ (wr # NoWrite /\ wr.path = "of_container_mut")
            => /\ Owned
               /\ \A g \in Fields : Load(FieldAddr(Origin, g)) = AfterWrite(g)
               /\ OwnsContainer(cur)
                    => \A g \in Fields :
                            Load(FieldAddr(RefAddr(cur), g)) = AfterWrite(g)
               /\ borrow # NoBorrow
                    => Load(as_field(BorrowBoxMut_deref(borrow.box))) = wr.val
    /\ (borrow # NoBorrow /\ borrow.ctor \in {"of_container", "of_container_mut"})
            => Load(as_field(BorrowBox_deref(borrow.box)))
                    = Load(FieldAddr(RefAddr(cur), fld))

C4_Witness ==
    /\ wr # NoWrite /\ wr.path = "of_container_mut"
    /\ borrow = NoBorrow /\ OwnsContainer(cur)
    /\ fld = 2 /\ layout # DeclOrder
    /\ wr.pre = <<1, 2, 3>> /\ wr.val = NewVal
    /\ \A g \in Fields :
            Load(FieldAddr(RefAddr(cur), g)) = (IF g = 2 THEN NewVal ELSE g)

\* C5: boxed container {1, 2, 3}; from_box, from_container, a write of 10
\* through as_field_mut, into_container, into_box: the write is in exactly
\* the field the handle translates, of the original container (for the
\* field-two handle: field two is 10, fields one and three are 1 and 3).
C5_OwnedWrite ==
    (wr # NoWrite /\ wr.path = "own")
        => /\ Owned
           /\ \A g \in Fields : Load(FieldAddr(Origin, g)) = AfterWrite(g)
           /\ cur.k = "Handle"
                => \A g \in Fields :
                        Load(FieldAddr(as_container(cur.rep), g)) = AfterWrite(g)
           /\ cur.k \in {"Box", "OwnBox"} /\ cur.t = "Container"
                => \A g \in Fields : Load(FieldAddr(RefAddr(cur), g)) = AfterWrite(g)

C5_Witness ==
    /\ wr # NoWrite /\ wr.path = "own"
    /\ Is("Box", "into_box") /\ cur.prev = "into_container"
    /\ fld = 2
    /\ wr.pre = <<1, 2, 3>> /\ wr.val = 10
    /\ Load(FieldAddr(RefAddr(cur), 1)) = 1
    /\ Load(FieldAddr(RefAddr(cur), 2)) = 10
    /\ Load(FieldAddr(RefAddr(cur), 3)) = 3

\* C6: handle <-> alias conversions keep the address.  For an address x of
\* the client's making, into_alias(from_alias(IntrusiveAlias::new(x))) reads
\* x, as do as_alias and as_alias_mut of the handle; of_alias of an alias
\* is a handle whose as_alias is that alias; no offset is applied, for a
\* handle of a container's field either.
C6_AliasIdentity ==
    /\ (Live /\ cur.org.type = "raw")
            => /\ Addr(cur) = cur.org.base
               /\ cur.k = "Alias"
                    => /\ IntrusiveAlias_get_address(cur.rep) = cur.org.base
                       /\ IntrusiveBase_as_alias(Intrusive_of_alias(cur.rep)) = cur.rep
                       /\ IntrusiveAlias_get_address(
                            Intrusive_into_alias(Intrusive_from_alias(cur.rep)))
                                = cur.org.base
               /\ cur.k = "Handle"
                    => /\ IntrusiveAlias_get_address(IntrusiveBase_as_alias(cur.rep))
                                = cur.org.base
                       /\ IntrusiveAlias_get_address(Intrusive_as_alias_mut(cur.rep))
                                = cur.org.base
    /\ (Owned /\ cur.k = "Alias" /\ cur.t = "Field")
            => IntrusiveAlias_get_address(cur.rep) = PtrAdd(Origin, offset)
    /\ (Owned /\ Is("Handle", "Intrusive::from_alias"))
            => as_field(cur.rep) = PtrAdd(Origin, offset)

C6_Witness ==
    /\ Is("Alias", "Intrusive::into_alias") /\ cur.prev = "Intrusive::from_alias"
    /\ cur.org.type = "raw"
    /\ cur.org.base = AddrSpace - 1
    /\ IntrusiveAlias_get_address(cur.rep) = AddrSpace - 1
    /\ offset # 0

\* The live values answerable for the allocation at b: those that descend
\* from it and whose address lies in its block.
Owners(b) ==
    { v \in {cur} : /\ v # NoVal
                    /\ v.org.type = "Container" /\ v.org.base = b
                    /\ b <= Addr(v) /\ Addr(v) < b + ContainerSize }
Discarded(b) == \E l \in leaked : l.base = b

C8_AnyIntoBox ==
    /\ Is("Box", "into_box") => cur.rep.raw = Origin
    /\ \A e \in faults : e.ev # "bad_free"

\* C8, amended: at an into_box call that meets into_box's contract (an
\* OwnBox<T> that descends from a Box<T>) the OwnBox tracks exactly the
\* address the allocator returned and from_box captured, a live allocation
\* of T; the only address handed to the allocator that is not one is
\* container + offset, by the Box<Field> of an into_box call made on the
\* OwnBox<Field> that into_field returned.
C8_IntoBoxAddress ==
    /\ (Live /\ cur.k = "OwnBox" /\ Contract_into_box(cur))
            => /\ OwnBox_get_address(cur.rep) = Origin
               /\ Origin \in Bases /\ heap[Origin] = cur.t
    /\ (Is("Box", "into_box") /\ Contract_into_box(cur))
            => /\ cur.rep.raw = Origin
               /\ cur.rep.raw \in Bases /\ heap[cur.rep.raw] = cur.t
    /\ (Is("Box", "into_box") /\ ~Contract_into_box(cur))
            => /\ cur.t = "Field"
               /\ cur.rep.raw = PtrAdd(Origin, offset)
    /\ \A e \in faults :
            e.ev = "bad_free"
                => /\ e.t = "Field"
                   /\ \E b \in Bases : e.addr = PtrAdd(b, offset)

C8_Witness ==
    /\ Is("Box", "into_box") /\ cur.prev = "into_container"
    /\ Contract_into_box(cur)
    /\ cur.rep.raw = Origin
    /\ heap[Origin] = "Container"
    /\ offset # 0
    /\ wr # NoWrite

\* C9: an OwnBox discarded without into_box or into_alias: nothing happens.
\* No panic, nothing is handed to the allocator, the allocation stays
\* allocated with its contents.
C9_DiscardLeaks ==
    /\ \A l \in leaked :
            /\ heap[l.base] = "Container"
            /\ \A w \in BlockWords(l.base) : mem[w] # 0
    /\ \A e \in faults : e.ev \notin {"panic", "bad_free"}

C9_Witness ==
    \E l \in leaked :
        /\ l.addr # l.base
        /\ heap[l.base] = "Container"
        /\ cur = NoVal
        /\ faults = {}

\* C10: MyStruct, three i32 fields in declared order without padding: the
\* macro gives 0, 4 and 8 for field1, field2 and field3.
C10_MyStructOffsets ==
    layout = DeclOrder
        => /\ containerof_field_offset(1) = 0
           /\ containerof_field_offset(2) = 4
           /\ containerof_field_offset(3) = 8

C10_Witness ==
    /\ layout = DeclOrder
    /\ \E b \in Bases : heap[b] = "Container"
    /\ ~has_offset_of
    /\ <<containerof_field_offset(1), containerof_field_offset(2),
         containerof_field_offset(3)>> = <<0, 4, 8>>

\* C11: the four accessors are arithmetic on the handle's stored address
\* h: as_container and as_container_mut denote h - offset(), as_field and
\* as_field_mut denote h.  The handle keeps its address and its ownership,
\* the allocation is not released, and into_container afterwards gives
\* the container's address.
C11_AccessorsPure ==
    /\ obs # NoObs
            => /\ obs.c = PtrSub(obs.h, offset)
               /\ obs.f = obs.h
               /\ obs.path \notin {"of_container", "of_field"}
                    => /\ obs.cm = PtrSub(obs.h, offset)
                       /\ obs.fm = obs.h
    /\ (obs # NoObs /\ obs.path = "own")
            => /\ Owned
               /\ heap[Origin] = "Container"
               /\ Owners(Origin) = {cur}
               /\ faults = {}
               /\ obs.c = Origin
               /\ cur.k = "Handle" => Addr(cur) = obs.h
               /\ cur.k = "OwnBox"
                    => /\ cur.via = "into_container"
                       /\ OwnBox_get_address(cur.rep) = obs.c

C11_Witness ==
    /\ obs # NoObs /\ obs.path = "own"
    /\ Is("OwnBox", "into_container")
    /\ OwnBox_get_address(cur.rep) = obs.c
    /\ obs.c = Origin /\ obs.cm = Origin
    /\ obs.f = Origin + offset /\ obs.fm = obs.f
    /\ offset # 0
    /\ wr # NoWrite

\* The address stored by the handle the live borrow box derefs to.
BorrowedAddr ==
    IntrusiveAlias_get_address(IntrusiveBase_as_alias(
        IF borrow.mode = "mut" THEN BorrowBoxMut_deref(borrow.box)
                               ELSE BorrowBox_deref(borrow.box)))
\* The address from_container would store for a container at address a.
OwningAddr(a) ==
    IntrusiveAlias_get_address(IntrusiveBase_as_alias(
        from_container(OwnBox_from_alias(IntrusiveAlias_new(a)))))

\* C12: for a container at a, the handle that the borrow box of
\* of_container / of_container_mut derefs to stores a + offset(), the
\* address from_container would store; of_field / of_field_mut of a field
\* at f store f.  The container stays with its owner, which alone answers
\* for the allocation, during the borrow and after the borrow box is gone;
\* nothing is released.
C12_BorrowedConstruction ==
    /\ (borrow # NoBorrow /\ borrow.ctor \in {"of_container", "of_container_mut"})
            => /\ BorrowedAddr = PtrAdd(RefAddr(cur), offset)
               /\ BorrowedAddr = OwningAddr(RefAddr(cur))
    /\ (borrow # NoBorrow /\ borrow.ctor \in {"of_field", "of_field_mut"})
            => BorrowedAddr = FieldRefAddr(cur)
    /\ borrow # NoBorrow
            => /\ Owned /\ cur.k \in {"Box", "OwnBox"}
               /\ heap[Origin] = "Container"
               /\ Owners(Origin) = {cur}
    /\ (obs # NoObs /\ obs.path # "own")
            => /\ Owned /\ cur.k \in {"Box", "OwnBox"}
               /\ heap[Origin] = "Container"
               /\ Owners(Origin) = {cur}
               /\ obs.h = (IF obs.path \in {"of_container", "of_container_mut"}
                           THEN PtrAdd(RefAddr(cur), offset)
                           ELSE FieldRefAddr(cur))
    /\ \A e \in faults : e.ev # "bad_free"

C12_Witness ==
    /\ borrow = NoBorrow
    /\ obs # NoObs /\ obs.path = "of_container"
    /\ Is("Box", "Box::new")
    /\ obs.h = RefAddr(cur) + offset
    /\ offset # 0
    /\ heap[Origin] = "Container" /\ Owners(Origin) = {cur}

\* C13: the subtraction of offset() in into_container and as_container does
\* not underflow for a handle whose address comes from a container (from
\* from_container, of_container, of_container_mut, also after into_field /
\* from_field or an alias round trip): the stored address is >= offset()
\* and the difference is the container's address.  The code compares
\* nothing: the only subtractions that went below zero are of handles made
\* from a client's address.
C13_NoUnderflow ==
    /\ (Live /\ cur.k = "Handle" /\ OwnsField(cur))
            => /\ ~Underflows(cur.rep)
               /\ Addr(cur) - offset = Origin
               /\ as_container(cur.rep) = Addr(cur) - offset
               /\ OwnBox_get_address(into_container(cur.rep)) = Addr(cur) - offset
    /\ borrow # NoBorrow
            => /\ BorrowedAddr >= offset
               /\ BorrowedAddr - offset = Origin
    /\ (obs # NoObs /\ obs.path # "foreign")
            => /\ obs.h >= offset
               /\ obs.c = obs.h - offset
    /\ (Owned /\ Is("OwnBox", "into_container"))
            => OwnBox_get_address(cur.rep) = Origin
    /\ (obs # NoObs /\ obs.path = "foreign")
            => /\ obs.h >= offset => obs.c = obs.h - offset
               /\ obs.h < offset
                    => /\ [ev |-> "underflow"] \in faults
                       /\ obs.c = obs.h - offset + AddrSpace

C13_Witness ==
    /\ Is("Handle", "from_field") /\ OwnsField(cur)
    /\ Origin < offset
    /\ Addr(cur) >= offset
    /\ Addr(cur) - offset = Origin
    /\ obs # NoObs /\ obs.c = Origin
    /\ [ev |-> "underflow"] \in faults

\* C14: BorrowBox::new(source) and BorrowBoxMut::new(source) record the
\* address of the handle object source refers to: the handle the borrow
\* box derefs to has that location as its as_alias() address (and its
\* as_field() denotes it), not the field address stored in source.  The
\* borrow boxes of of_container / of_field deref to a handle that stores a
\* field address.
C14_NewRecordsHandleLocation ==
    /\ (borrow # NoBorrow /\ borrow.ctor \in {"BorrowBox::new", "BorrowBoxMut::new"})
            => /\ BorrowedAddr = borrow.src
               /\ BorrowedAddr # Addr(cur)
    /\ (obs # NoObs /\ obs.path \in {"BorrowBox::new", "BorrowBoxMut::new"})
            => /\ obs.h \in StackAddrs
               /\ obs.f = obs.h
               /\ borrow # NoBorrow => obs.h = borrow.src
    /\ (borrow # NoBorrow /\ borrow.ctor \in {"of_container", "of_container_mut"})
            => BorrowedAddr = FieldAddr(RefAddr(cur), fld)
    /\ (borrow # NoBorrow /\ borrow.ctor \in {"of_field", "of_field_mut"})
            => BorrowedAddr = FieldRefAddr(cur)

C14_Witness ==
    /\ borrow # NoBorrow /\ borrow.ctor = "BorrowBox::new"
    /\ BorrowedAddr = borrow.src
    /\ Is("Handle", "from_container")
    /\ Addr(cur) = Origin + offset
    /\ offset # 0
    /\ obs # NoObs /\ obs.f = borrow.src

=============================================================================
